---------------------------- MODULE Spec2Model ----------------------------
(***************************************************************************)
(* Pizza Value Calculator (claude-code-script.py).                         *)
(*                                                                         *)
(* Text is a sequence of one-character strings.  Lengths are whole         *)
(* centimetres and money is whole cents.  math.pi is the rational          *)
(* PiNum / PiDen, and an area is kept as the integer area * AreaScale      *)
(* (AreaScale = 4 * PiDen), so that the circle pi * (d/2)^2 and the        *)
(* rectangle w * h are both exact.  A value_ratio is the exact fraction    *)
(* [num, den] with den > 0, compared by cross multiplication.              *)
(***************************************************************************)
EXTENDS Integers, Sequences, FiniteSets, TLC

\* ------------------------------------------------------------- bounds
MaxPad == 1
MaxDim == 10
MaxRectDim == 2
MaxParts == 3
MaxPrice == 2
MaxItems == 3
MaxDiam == 2
MaxBudget == 6

\* ---------------------------------------------------------- constants
PiNum == 355
PiDen == 113
AreaScale == 4 * PiDen

\* ------------------------------------------------------- str methods
Digits == <<"0", "1", "2", "3", "4", "5", "6", "7", "8", "9">>

IsDigit(c) == \E i \in 1..10 : Digits[i] = c

DigitVal(c) == (CHOOSE i \in 1..10 : Digits[i] = c) - 1

IsSpace(c) == c = " "

LowerChar(c) ==
    CASE c = "C" -> "c"
      [] c = "M" -> "m"
      [] c = "X" -> "x"
      [] OTHER -> c

\* variant: the descriptor is not lower-cased
LowerSkipped(s) == s

\* str.lower()
Lower(s) == [i \in 1..Len(s) |-> LowerChar(s[i])]

\* str.replace('cm', ''): every non-overlapping occurrence, left to right
RECURSIVE ReplaceCm(_)
ReplaceCm(s) ==
    IF Len(s) < 2 THEN s
    ELSE IF s[1] = "c" /\ s[2] = "m" THEN ReplaceCm(SubSeq(s, 3, Len(s)))
    ELSE <<s[1]>> \o ReplaceCm(Tail(s))

RECURSIVE LStrip(_)
LStrip(s) == IF s # <<>> /\ IsSpace(s[1]) THEN LStrip(Tail(s)) ELSE s

RECURSIVE RStrip(_)
RStrip(s) ==
    IF s # <<>> /\ IsSpace(s[Len(s)]) THEN RStrip(SubSeq(s, 1, Len(s) - 1)) ELSE s

\* str.strip()
Strip(s) == RStrip(LStrip(s))

\* 'x' in size_str
HasX(s) == \E i \in 1..Len(s) : s[i] = "x"

\* str.split('x'): the parts between the separators, empty parts kept
RECURSIVE Split(_, _)
Split(s, cur) ==
    IF s = <<>> THEN <<cur>>
    ELSE IF s[1] = "x" THEN <<cur>> \o Split(Tail(s), <<>>)
    ELSE Split(Tail(s), Append(cur, s[1]))

\* the results of a call that may raise
Ok(v) == [ok |-> TRUE, val |-> v]
ValueError == [ok |-> FALSE, val |-> 0]

RECURSIVE DigitsValue(_, _)
DigitsValue(s, acc) ==
    IF s = <<>> THEN acc ELSE DigitsValue(Tail(s), 10 * acc + DigitVal(s[1]))

\* float(text): surrounding whitespace, an optional sign, one or more digits
Float(s) ==
    LET t == Strip(s)
        neg == t # <<>> /\ t[1] = "-"
        body == IF neg THEN Tail(t) ELSE t
    IN  IF body = <<>> \/ \E i \in 1..Len(body) : ~IsDigit(body[i])
        THEN ValueError
        ELSE Ok(IF neg THEN 0 - DigitsValue(body, 0) ELSE DigitsValue(body, 0))

\* ------------------------------------------------------------- Pizza
\* a size argument: a number, or text
NumSize(n) == [isnum |-> TRUE, num |-> n, str |-> <<>>]
TextSize(s) == [isnum |-> FALSE, num |-> 0, str |-> s]

\* variant: the diameter is used where the radius belongs
CircleAreaOfDiameter(diameter) == 4 * PiNum * diameter * diameter

\* math.pi * (diameter / 2) ** 2, times AreaScale
CircleArea(diameter) == PiNum * diameter * diameter

\* width * height, times AreaScale
RectArea(width, height) == AreaScale * width * height

\* Pizza._calculate_area
CalculateArea(size) ==
    IF size.isnum THEN Ok(CircleArea(size.num))
    ELSE LET size_str == Strip(ReplaceCm(Lower(size.str)))
         IN  IF HasX(size_str)
             THEN LET dimensions == Split(size_str, <<>>)
                      width == Float(Strip(dimensions[1]))
                      height == Float(Strip(dimensions[2]))
                  IN  IF ~width.ok \/ ~height.ok THEN ValueError
                      ELSE Ok(RectArea(width.val, height.val))
             ELSE LET diameter == Float(size_str)
                  IN  IF ~diameter.ok THEN ValueError
                      ELSE Ok(CircleArea(diameter.val))


\* a value_ratio: the fraction num / den, den > 0
Ratio(num, den) == [num |-> num, den |-> den]

\* a < b on value ratios
RatioLess(a, b) == a.num * b.den < b.num * a.den

RatioEq(a, b) == a.num * b.den = b.num * a.den

\* self.area / self.price if self.price > 0 else 0
ValueRatio(area, price) == IF price > 0 THEN Ratio(area, price) ELSE Ratio(0, 1)

\* variant: a size that does not parse gives a pizza of area 0
PizzaInitDefaultArea(name, size, price) ==
    LET area == CalculateArea(size)
        a == IF area.ok THEN area.val ELSE 0
    IN  [ok |-> TRUE, err |-> "",
         obj |-> <<[name |-> name, price |-> price, area |-> a,
                    value_ratio |-> ValueRatio(a, price)]>>]

\* Pizza.__init__: the object, or the exception _calculate_area raised
PizzaInit(name, size, price) ==
    LET area == CalculateArea(size)
    IN  IF ~area.ok THEN [ok |-> FALSE, err |-> "ValueError", obj |-> <<>>]
        ELSE [ok |-> TRUE, err |-> "",
              obj |-> <<[name |-> name, price |-> price, area |-> area.val,
                         value_ratio |-> ValueRatio(area.val, price)]>>]

\* self.price / self.area * 100, as a fraction of cents per cm^2 (times AreaScale)
CostPer100(pizza) == Ratio(pizza.price * 100, pizza.area)

\* Pizza.__str__: the figures it formats, or ZeroDivisionError
StrPizza(pizza) ==
    IF pizza.area = 0 THEN [ok |-> FALSE, err |-> "ZeroDivisionError", cost |-> Ratio(0, 1)]
    ELSE [ok |-> TRUE, err |-> "", cost |-> CostPer100(pizza)]

\* --------------------------------------------------- find_best_pizza
\* variant: a later item of equal key replaces the candidate
KeyGreaterOrEqual(item, maxitem) == ~RatioLess(item.value_ratio, maxitem.value_ratio)

\* max() replaces its candidate only by an item whose key is greater
KeyGreater(item, maxitem) == RatioLess(maxitem.value_ratio, item.value_ratio)

RECURSIVE MaxFrom(_, _, _)
MaxFrom(pizzas_, i, maxitem) ==
    IF i > Len(pizzas_) THEN maxitem
    ELSE MaxFrom(pizzas_, i + 1,
                 IF KeyGreater(pizzas_[i], maxitem) THEN pizzas_[i] ELSE maxitem)

\* find_best_pizza: max(pizzas, key=value_ratio), ValueError on an empty list
FindBestPizza(pizzas_) ==
    IF pizzas_ = <<>> THEN [ok |-> FALSE, err |-> "ValueError", obj |-> <<>>]
    ELSE [ok |-> TRUE, err |-> "", obj |-> <<MaxFrom(pizzas_, 2, pizzas_[1])>>]

\* ---------------------------------------------------- display_results
Reverse(l) == [i \in 1..Len(l) |-> l[Len(l) + 1 - i]]

\* one step of the stable ascending sort: item goes after every element whose
\* key is not greater than its own
RECURSIVE InsertAscending(_, _)
InsertAscending(l, item) ==
    IF l = <<>> THEN <<item>>
    ELSE IF RatioLess(item.value_ratio, l[1].value_ratio) THEN <<item>> \o l
    ELSE <<l[1]>> \o InsertAscending(Tail(l), item)

RECURSIVE SortAscending(_, _)
SortAscending(l, acc) ==
    IF l = <<>> THEN acc ELSE SortAscending(Tail(l), InsertAscending(acc, l[1]))

\* variant: sorted ascending and then reversed
SortedThenReversed(pizzas_) == Reverse(SortAscending(pizzas_, <<>>))

\* sorted(pizzas, key=value_ratio, reverse=True): the list is reversed, sorted
\* stably in ascending order, and reversed again
SortedByValue(pizzas_) == Reverse(SortAscending(Reverse(pizzas_), <<>>))

\* one print() call
Line(kind, name, num, den) == [kind |-> kind, name |-> name, num |-> num, den |-> den]

Rule == Line("rule", "", 0, 1)
Blank == Line("blank", "", 0, 1)

\* the loop of display_results from rank i on: the lines printed, and whether
\* the loop ran to its end (a zero area stops it at the cost line)
RECURSIVE ItemLines(_, _)
ItemLines(sorted, i) ==
    IF i > Len(sorted) THEN [ok |-> TRUE, out |-> <<>>]
    ELSE LET pizza == sorted[i]
             head == << Line("rank", pizza.name, i, 1),
                        Line("area", pizza.name, pizza.area, AreaScale),
                        Line("price", pizza.name, pizza.price, 100),
                        Line("value", pizza.name, pizza.value_ratio.num,
                             pizza.value_ratio.den) >>
         IN  IF pizza.area = 0 THEN [ok |-> FALSE, out |-> head]
             ELSE LET cost == CostPer100(pizza)
                      rest == ItemLines(sorted, i + 1)
                  IN  [ok |-> rest.ok,
                       out |-> head \o << Line("cost", pizza.name, cost.num, cost.den),
                                          Blank >> \o rest.out]

\* display_results: the sorted list, the lines printed, and the exception if any
DisplayResults(pizzas_) ==
    LET sorted == SortedByValue(pizzas_)
        header == << Rule, Line("title", "", 0, 1), Rule, Blank >>
        items == ItemLines(sorted, 1)
    IN  IF ~items.ok
        THEN [ok |-> FALSE, err |-> "ZeroDivisionError", sorted |-> sorted,
              out |-> header \o items.out, top |-> <<>>]
        ELSE IF sorted = <<>>
        THEN [ok |-> FALSE, err |-> "IndexError", sorted |-> sorted,
              out |-> header \o items.out, top |-> <<>>]
        ELSE [ok |-> TRUE, err |-> "", sorted |-> sorted, top |-> <<sorted[1]>>,
              out |-> header \o items.out \o
                      << Rule,
                         Line("best", sorted[1].name, 0, 1),
                         Line("best_value", sorted[1].name,
                              sorted[1].value_ratio.num, sorted[1].value_ratio.den),
                         Rule >>]

\* ------------------------------------------------- budget (main)
\* int(a / b) for b > 0: truncation toward zero
IntDiv(a, b) == IF a >= 0 THEN a \div b ELSE 0 - ((0 - a) \div b)

\* variant: round() in the place of int()
NumPizzasRounded(budget_, price) == IntDiv(2 * budget_ + price, 2 * price)

\* num_pizzas = int(budget / best.price)
NumPizzas(budget_, price) == IntDiv(budget_, price)

\* leftover = budget - (num_pizzas * best.price)
Leftover(budget_, n, price) == budget_ - n * price

\* total_area = num_pizzas * best.area
TotalArea(n, area) == n * area

\* ------------------------------------------------------------ inputs
Pad(n) == [i \in 1..n |-> " "]

RECURSIVE NatText(_)
NatText(n) ==
    IF n < 10 THEN <<Digits[n + 1]>>
    ELSE NatText(n \div 10) \o <<Digits[(n % 10) + 1]>>

\* the decimal spelling of an integer
IntText(n) == IF n < 0 THEN <<"-">> \o NatText(0 - n) ELSE NatText(n)

\* the unit suffix in every letter case, or none
Units == { <<>>, <<"c", "m">>, <<"C", "M">>, <<"C", "m">>, <<"c", "M">> }

\* a diameter spelled with whitespace before it, before the unit and after it
DiameterText(d, lead, mid, unit, trail) ==
    Pad(lead) \o IntText(d) \o Pad(mid) \o unit \o Pad(trail)

Diameters == (0 - 1)..MaxDim

DiameterTexts ==
    { DiameterText(d, f[1], f[2], u, f[3]) :
        d \in Diameters, f \in [1..3 -> 0..MaxPad], u \in Units }

\* one part of a descriptor with separators: a whole number, or nothing
Tokens == { <<>> } \cup { IntText(n) : n \in (0 - 1)..MaxRectDim }

RECURSIVE JoinParts(_, _, _)
JoinParts(parts, sep, pad) ==
    IF Len(parts) = 1 THEN Pad(pad) \o parts[1] \o Pad(pad)
    ELSE Pad(pad) \o parts[1] \o Pad(pad) \o <<sep>> \o JoinParts(Tail(parts), sep, pad)

\* descriptors of 2..MaxParts parts joined by the separator
RectTexts ==
    { JoinParts(parts, sep, pad) \o u :
        parts \in UNION { [1..n -> Tokens] : n \in 2..MaxParts },
        sep \in {"x", "X"}, pad \in 0..MaxPad, u \in { <<>>, <<"c", "m">> } }

\* the size arguments a Pizza is constructed from
AreaSizes ==
    { NumSize(d) : d \in Diameters } \cup
    { TextSize(t) : t \in DiameterTexts \cup RectTexts }

Prices == 0..MaxPrice

\* ---------------------------------------------------- main's literals
SmallPrice == 480
LargePrice == 550
PartyPrice == 1300
Budget == 2000

PizzaNames == << "Small Pizza", "Large Pizza", "Party Pizza", "Pizza 4", "Pizza 5" >>

\* the list literal of main
Menu ==
    << [name |-> "Small Pizza", size |-> TextSize(<<"2", "6", "c", "m">>),
        price |-> SmallPrice],
       [name |-> "Large Pizza", size |-> TextSize(<<"3", "0", "c", "m">>),
        price |-> LargePrice],
       [name |-> "Party Pizza", size |-> TextSize(<<"4", "6", "x", "3", "3", "c", "m">>),
        price |-> PartyPrice] >>

\* other menus of three pizzas: valid, unparsable and zero-area sizes
TrialSizes ==
    { NumSize(1), TextSize(<<"2", "c", "m">>), TextSize(<<"1", "x", "2", "c", "m">>),
      TextSize(<<"2", "x">>), TextSize(<<"0", "c", "m">>) }

Named(entries) ==
    [k \in 1..Len(entries) |->
        [name |-> PizzaNames[k], size |-> entries[k].size, price |-> entries[k].price]]

MainData ==
    { Menu } \cup
    { Named(e) : e \in [1..3 -> [size : TrialSizes, price : Prices]] }

Budgets == (0..MaxBudget) \cup { Budget }

\* lists of up to MaxItems pizzas of small diameters and prices
RankData ==
    { Named(e) :
        e \in UNION { [1..n -> [size : { NumSize(d) : d \in 1..MaxDiam }, price : Prices]] :
                      n \in 0..MaxItems } }

\* -------------------------------------------------------------- state
VARIABLES data, pizzas, pc, error, output, sorted_pizzas, top, best,
          budget, num_pizzas, total_area, leftover, text

vars == << data, pizzas, pc, error, output, sorted_pizzas, top, best,
           budget, num_pizzas, total_area, leftover, text >>

Start ==
    /\ pizzas = <<>>
    /\ pc = IF data = <<>> THEN "built" ELSE "construct"
    /\ error = ""
    /\ output = <<>>
    /\ sorted_pizzas = <<>>
    /\ top = <<>>
    /\ best = <<>>
    /\ budget = 0
    /\ num_pizzas = 0
    /\ total_area = 0
    /\ leftover = 0
    /\ text = <<>>

\* the next Pizza(...) of the list being built; an exception leaves the list unbound
Construct ==
    /\ pc = "construct"
    /\ LET k == Len(pizzas) + 1
           made == PizzaInit(data[k].name, data[k].size, data[k].price)
       IN  /\ pizzas' = pizzas \o made.obj
           /\ error' = made.err
           /\ pc' = IF ~made.ok THEN "error"
                    ELSE IF k = Len(data) THEN "built" ELSE "construct"
    /\ UNCHANGED << data, output, sorted_pizzas, top, best, budget, num_pizzas,
                    total_area, leftover, text >>

\* display_results(pizzas), then the position `after` unless it raised
Displayed(after, raised) ==
    LET shown == DisplayResults(pizzas)
    IN  /\ output' = output \o shown.out
        /\ sorted_pizzas' = shown.sorted
        /\ top' = shown.top
        /\ error' = shown.err
        /\ pc' = IF shown.ok THEN after ELSE raised
        /\ UNCHANGED << data, pizzas, best, budget, num_pizzas, total_area,
                        leftover, text >>

\* main: display_results(pizzas)
Display == pc = "built" /\ Displayed("displayed", "error")

\* main: the budget recommendation, with budget b
Recommend ==
    /\ pc = "displayed"
    /\ \E b \in Budgets :
        LET found == FindBestPizza(pizzas)
            banner == << Rule, Line("title", "", 0, 1), Rule >>
            with == << Line("budget", "", b, 100) >>
        IN  IF ~found.ok
            THEN /\ output' = output \o banner
                 /\ error' = found.err
                 /\ pc' = "error"
                 /\ UNCHANGED << best, budget, num_pizzas, total_area, leftover >>
            ELSE LET b_ == found.obj[1]
                 IN  /\ best' = found.obj
                     /\ budget' = b
                     /\ IF b_.price = 0
                        THEN /\ output' = output \o banner \o with
                             /\ error' = "ZeroDivisionError"
                             /\ pc' = "error"
                             /\ UNCHANGED << num_pizzas, total_area, leftover >>
                        ELSE LET n == NumPizzas(b, b_.price)
                             IN  /\ num_pizzas' = n
                                 /\ total_area' = TotalArea(n, b_.area)
                                 /\ leftover' = Leftover(b, n, b_.price)
                                 /\ output' = output \o banner \o with \o
                                      << Line("buy", b_.name, n, 1),
                                         Line("total_area", b_.name,
                                              TotalArea(n, b_.area), AreaScale),
                                         Line("leftover", b_.name,
                                              Leftover(b, n, b_.price), 100) >>
                                 /\ error' = ""
                                 /\ pc' = "done"
    /\ UNCHANGED << data, pizzas, sorted_pizzas, top, text >>

Init == data \in MainData /\ Start

Next == Construct \/ Display \/ Recommend

\* the program: main() on a menu of three pizzas
Spec == Init /\ [][Next]_vars

\* ------------------------------------- one Pizza, constructed and printed
\* str(pizza)
Str ==
    /\ pc = "built"
    /\ LET shown == StrPizza(pizzas[1])
       IN  /\ text' = <<shown>>
           /\ error' = shown.err
           /\ pc' = IF shown.ok THEN "done" ELSE "error"
    /\ UNCHANGED << data, pizzas, output, sorted_pizzas, top, best, budget,
                    num_pizzas, total_area, leftover >>

InitArea ==
    /\ data \in { << [name |-> "Pizza", size |-> s, price |-> p] >> :
                    s \in AreaSizes, p \in Prices }
    /\ Start

NextArea == Construct \/ Str

SpecArea == InitArea /\ [][NextArea]_vars

\* ------------------- display_results and find_best_pizza on any list
RankDisplay == pc = "built" /\ Displayed("ranked", "ranked")

RankFindBest ==
    /\ pc = "ranked"
    /\ LET found == FindBestPizza(pizzas)
       IN  /\ best' = found.obj
           /\ error' = found.err
           /\ pc' = "done"
    /\ UNCHANGED << data, pizzas, output, sorted_pizzas, top, budget, num_pizzas,
                    total_area, leftover, text >>

InitRank == data \in RankData /\ Start

NextRank == Construct \/ RankDisplay \/ RankFindBest

SpecRank == InitRank /\ [][NextRank]_vars

\* ------------------------------------------------------------- claims
RatioLeq(a, b) == ~RatioLess(b, a)

\* where an item stands in a list of distinct items
IndexOf(l, x) == CHOOSE i \in DOMAIN l : l[i] = x

\* items i < j of l tie at the maximum value ratio of l, which is positive
TieAtMax(l, i, j) ==
    /\ i < j
    /\ RatioEq(l[i].value_ratio, l[j].value_ratio)
    /\ l[i].value_ratio.num > 0
    /\ \A k \in DOMAIN l : RatioLeq(l[k].value_ratio, l[i].value_ratio)

\* C1: on every non-empty list find_best_pizza returns an item of the list whose
\* value_ratio no other item exceeds, and among the items of maximum value_ratio
\* the one that comes first in the list.
C1_BestIsFirstMaximum ==
    (pc = "done" /\ pizzas # <<>>) =>
        /\ Len(best) = 1
        /\ \E i \in DOMAIN pizzas :
            /\ best[1] = pizzas[i]
            /\ \A j \in DOMAIN pizzas :
                 RatioLeq(pizzas[j].value_ratio, pizzas[i].value_ratio)
            /\ \A j \in 1..(i - 1) :
                 RatioLess(pizzas[j].value_ratio, pizzas[i].value_ratio)

\* find_best_pizza has returned on a list whose maximum is shared by two items,
\* neither of them the first of the list
C1_Witness ==
    /\ pc = "done"
    /\ Len(best) = 1
    /\ \E i, j \in 2..Len(pizzas) : TieAtMax(pizzas, i, j) /\ best[1] = pizzas[i]

\* C2: the ranking display_results computes is a permutation of its input, its
\* value_ratio never increases from one place to the next, and items of equal
\* value_ratio keep the order they had in the input.
C2_RankIsStableDescendingPermutation ==
    (pc \in {"ranked", "done"}) =>
        /\ Len(sorted_pizzas) = Len(pizzas)
        /\ \A k \in DOMAIN pizzas : \E i \in DOMAIN sorted_pizzas :
             sorted_pizzas[i] = pizzas[k]
        /\ \A i \in DOMAIN sorted_pizzas : \E k \in DOMAIN pizzas :
             sorted_pizzas[i] = pizzas[k]
        /\ \A i \in 1..(Len(sorted_pizzas) - 1) :
             RatioLeq(sorted_pizzas[i + 1].value_ratio, sorted_pizzas[i].value_ratio)
        /\ \A i, j \in DOMAIN sorted_pizzas :
             (i < j /\ RatioEq(sorted_pizzas[i].value_ratio,
                               sorted_pizzas[j].value_ratio))
                 => IndexOf(pizzas, sorted_pizzas[i]) < IndexOf(pizzas, sorted_pizzas[j])

\* a list that was not in rank order, with two items of equal positive
\* value_ratio, has been ranked
C2_Witness ==
    /\ pc = "ranked"
    /\ sorted_pizzas # pizzas
    /\ \E i, j \in DOMAIN sorted_pizzas :
         /\ i < j
         /\ RatioEq(sorted_pizzas[i].value_ratio, sorted_pizzas[j].value_ratio)
         /\ sorted_pizzas[i].value_ratio.num > 0
         /\ \E k \in DOMAIN sorted_pizzas :
              RatioLess(sorted_pizzas[k].value_ratio, sorted_pizzas[i].value_ratio)

\* C3: the item find_best_pizza returns is the first item of the ranking of
\* display_results, ties included, so the item announced as best value is the
\* item the budget recommendation is made for.
C3_BestIsTopOfRanking ==
    (best # <<>>) =>
        /\ sorted_pizzas # <<>>
        /\ best[1] = sorted_pizzas[1]
        /\ top = best
        /\ \A n \in DOMAIN output :
             output[n].kind \in {"best", "best_value", "buy", "total_area", "leftover"}
                 => output[n].name = best[1].name

\* both functions have returned on a list whose maximum two items share
C3_Witness ==
    /\ pc = "done"
    /\ top # <<>>
    /\ best = top
    /\ \E i, j \in DOMAIN pizzas : TieAtMax(pizzas, i, j)
    /\ \E n \in DOMAIN output : output[n].kind = "best"

\* C4: a constructed item's value_ratio is area / price when price > 0 and 0
\* otherwise; it is never negative, and it is 0 exactly when the price is 0.
C4_ValueRatioZeroOnlyWhenFree ==
    (pizzas # <<>>) =>
        LET p == pizzas[1]
        IN  /\ p.price > 0 => RatioEq(p.value_ratio, Ratio(p.area, p.price))
            /\ p.price <= 0 => p.value_ratio.num = 0
            /\ p.value_ratio.num >= 0
            /\ p.value_ratio.num = 0 <=> p.price = 0

\* the texts that spell each diameter
Spellings ==
    [d \in Diameters |->
        { DiameterText(d, f[1], f[2], u, f[3]) : f \in [1..3 -> 0..MaxPad], u \in Units }]

\* C5: every constructed item has area > 0, a diameter or rectangle dimension
\* that is zero or negative makes the construction fail, and printing an item's
\* cost per 100 cm2 never divides by zero.
C5_AreaPositive ==
    /\ pizzas # <<>> => pizzas[1].area > 0
    /\ \A d \in Diameters :
         (d <= 0 /\ pc # "construct"
            /\ (data[1].size = NumSize(d)
                  \/ (~data[1].size.isnum /\ data[1].size.str \in Spellings[d])))
             => (pizzas = <<>> /\ error = "ValueError")
    /\ error # "ZeroDivisionError"

\* the separators of a descriptor
Separators(s) == { i \in 1..Len(s) : s[i] \in {"x", "X"} }

\* C6: a textual descriptor with a separator constructs an item only when the
\* separator splits it into exactly two parts, each a number; one part missing,
\* or more than two parts, is a parse error.
C6_ExactlyTwoParts ==
    (pc # "construct" /\ ~data[1].size.isnum
        /\ Separators(data[1].size.str) # {} /\ pizzas # <<>>)
        => Cardinality(Separators(data[1].size.str)) = 1

\* C7: with a budget >= 0 and a best item of price > 0, num_pizzas is
\* floor(budget / price), which is 0 when the price exceeds the budget, and
\* leftover = budget - num_pizzas * price lies in 0 .. price - 1.
C7_BudgetCount ==
    (pc = "done" /\ budget >= 0 /\ best[1].price > 0) =>
        LET price == best[1].price
        IN  /\ num_pizzas * price <= budget
            /\ budget < (num_pizzas + 1) * price
            /\ price > budget => num_pizzas = 0
            /\ leftover = budget - num_pizzas * price
            /\ leftover >= 0
            /\ leftover < price

\* a recommendation of several pizzas that leaves money over
C7_Witness ==
    /\ pc = "done"
    /\ budget \in 1..MaxBudget
    /\ best[1].price > 1
    /\ num_pizzas >= 2
    /\ leftover > 0

\* an area in hundredths of a cm2, rounded
Hundredths(area) == (200 * area + AreaScale) \div (2 * AreaScale)

\* C8: on main's three pizzas and budget the areas are 530.93, 706.86 and
\* 1518.00 cm2, the ranking is Large, Party, Small, Large Pizza is reported as
\* best, and the recommendation is 3 Large Pizzas, 3.50 left over and three
\* times the Large Pizza's area.
C8_MenuRun ==
    (data = Menu) =>
        /\ pc # "error"
        /\ pc \in {"built", "displayed", "done"} =>
             [k \in 1..3 |-> Hundredths(pizzas[k].area)] = <<53093, 70686, 151800>>
        /\ pc \in {"displayed", "done"} =>
             /\ [k \in 1..3 |-> sorted_pizzas[k].name]
                  = <<"Large Pizza", "Party Pizza", "Small Pizza">>
             /\ \E n \in DOMAIN output :
                  output[n].kind = "best" /\ output[n].name = "Large Pizza"
        /\ (pc = "done" /\ budget = Budget) =>
             /\ best[1].name = "Large Pizza"
             /\ num_pizzas = 3
             /\ leftover = 350
             /\ total_area = 3 * pizzas[2].area
             /\ \E n \in DOMAIN output : output[n] = Line("buy", "Large Pizza", 3, 1)

\* main has run to its end on its own menu and budget
C8_Witness == data = Menu /\ pc = "done" /\ budget = Budget

\* C9: a positive diameter d gives the same area as the number d and as every
\* text that spells d with the unit suffix in any letter case (or without it)
\* and whitespace around the number and the suffix.
C9_SpellingInsensitive ==
    \A d \in 1..MaxDim :
        (pc # "construct" /\ ~data[1].size.isnum /\ data[1].size.str \in Spellings[d])
            => /\ Len(pizzas) = 1
               /\ Ok(pizzas[1].area) = CalculateArea(NumSize(d))

\* a pizza was constructed from a two-digit diameter with whitespace on both
\* sides and an upper-case unit
C9_Witness ==
    /\ pc = "built"
    /\ data[1].size.str = DiameterText(MaxDim, 1, 1, <<"C", "M">>, 1)
    /\ Len(pizzas) = 1

\* C10: nothing is printed before every item is constructed; once a size
\* descriptor fails to parse the run is in its error state with nothing
\* printed, then and ever after; and every item holds the area computed from
\* its own descriptor, never a default.
C10_FailureBeforeOutput ==
    /\ output # <<>> => Len(pizzas) = Len(data)
    /\ \A k \in DOMAIN pizzas :
         /\ CalculateArea(data[k].size).ok
         /\ pizzas[k].area = CalculateArea(data[k].size).val
    /\ (\E k \in DOMAIN data : ~CalculateArea(data[k].size).ok) =>
         /\ output = <<>>
         /\ pc \in {"construct", "error"}
    /\ (pc # "construct" /\ Len(pizzas) < Len(data)) =>
         /\ pc = "error"
         /\ error = "ValueError"
         /\ ~CalculateArea(data[Len(pizzas) + 1].size).ok

\* the run ended on a descriptor that failed to parse after an item before it
\* had been constructed
C10_Witness ==
    /\ pc = "error"
    /\ error = "ValueError"
    /\ Len(pizzas) >= 1
    /\ output = <<>>

=============================================================================
